---- MODULE Spec2Model ----
(***************************************************************************)
(* A model of camp::Class (src/class.cpp): the metaclass node with its     *)
(* id-sorted function and property tables, its base-class links carrying   *)
(* byte offsets, its constructor list, and the operations that read them.  *)
(***************************************************************************)
EXTENDS Integers, Sequences, FiniteSets, TLC

(***************************************************************************)
(* Bounds of the model.                                                    *)
(***************************************************************************)
MaxOffset == 1
MaxPointer == 1
MaxId == 3
MaxConstructors == 2
NumArgs == 2
NumThreads == 2

(***************************************************************************)
(* Program constants.                                                      *)
(***************************************************************************)
\* the value baseOffset returns when the target is not found
NotFound == -1
\* the null pointer
Null == 0

\* the registered classes, in registration order: enough for a diamond
\* 4 -> {2, 3} -> 1, for chains, for siblings and for disjoint hierarchies
Classes == {1, 2, 3, 4}
\* signed byte deltas of the base links: a negative one and the non-negative ones
Offsets == {-1} \cup (0..MaxOffset)
\* addresses of instances: every sub-object address p + offset of an instance
\* at p is a valid (positive) address
MinAddress == Cardinality(Classes) * (MaxOffset + 1)
Pointers == {Null} \cup (MinAddress..(MinAddress + MaxPointer - 1))
Ids == 1..MaxId
ArgBundles == 1..NumArgs
Threads == 1..NumThreads

VARIABLES
    m_id,                 \* Class::m_id, per class
    m_name,               \* Class::m_name, per class
    m_bases,              \* Class::m_bases: sequence of BaseInfo {base, offset}
    m_functions,          \* Class::m_functions: FunctionEntry {id, functionPtr}, sorted by id
    m_propertiesById,     \* Class::m_propertiesById: PropertyEntry {id, propertyPtr}, sorted by id
    m_propertiesByIndex,  \* Class::m_propertiesByIndex: PropertyEntry in declaration order
    m_constructors,       \* Class::m_constructors: owned Constructor descriptors
    m_destructor,         \* Class::m_destructor
    call,                 \* the last completed call and its outcome
    run,                  \* the call in progress (construct, visit): its locals
    log,                  \* calls made to the collaborators by the call in progress
    threads               \* per thread: the call in progress and its locals

fields == <<m_id, m_name, m_bases, m_functions, m_propertiesById,
            m_propertiesByIndex, m_constructors, m_destructor>>
vars == <<m_id, m_name, m_bases, m_functions, m_propertiesById,
          m_propertiesByIndex, m_constructors, m_destructor, call, run, log, threads>>

(***************************************************************************)
(* Outcomes of a call: a returned value or a raised camp error.            *)
(***************************************************************************)
Ok(v) == [kind |-> "ok", value |-> v]
Err(e) == [kind |-> "error", error |-> e]
OutOfRange(index, size) == [type |-> "OutOfRange", index |-> index, size |-> size]
FunctionNotFound(id, name) == [type |-> "FunctionNotFound", id |-> id, name |-> name]
PropertyNotFound(id, name) == [type |-> "PropertyNotFound", id |-> id, name |-> name]
ClassUnrelated(name, target) == [type |-> "ClassUnrelated", name |-> name, target |-> target]
\* the null Function* / Property* (the void* null is Null)
nullptr == [kind |-> "null"]
NoCall == [op |-> "none"]
Idle == [pc |-> "idle"]

(***************************************************************************)
(* Class::Class(id, name)                                                  *)
(***************************************************************************)
ClassName(c) == <<"class", c>>
NewClass(c) == [id |-> c, name |-> ClassName(c)]

(***************************************************************************)
(* Class::baseOffset                                                       *)
(***************************************************************************)
RECURSIVE baseOffset(_, _)
RECURSIVE baseOffsetFrom(_, _, _)
RECURSIVE baseOffsetFromZero(_, _, _)

\* baseOffsetFrom with the final "return -1" written as "return 0"
baseOffsetFromZero(this, base, i) ==
    IF i > Len(m_bases[this])
    THEN 0
    ELSE LET baseInfo == m_bases[this][i]
             offset == baseOffset(baseInfo.base, base)
         IN IF offset # NotFound
            THEN offset + baseInfo.offset
            ELSE baseOffsetFromZero(this, base, i + 1)

\* the loop over m_bases from index i (1-based here, i - 1 in the source)
baseOffsetFrom(this, base, i) ==
    IF i > Len(m_bases[this])
    THEN NotFound
    ELSE LET baseInfo == m_bases[this][i]
             offset == baseOffset(baseInfo.base, base)
         IN IF offset # NotFound
            THEN offset + baseInfo.offset
            ELSE baseOffsetFrom(this, base, i + 1)

baseOffset(this, base) ==
    IF base = this THEN 0 ELSE baseOffsetFrom(this, base, 1)

(***************************************************************************)
(* Class::applyOffset                                                      *)
(***************************************************************************)
\* applyOffset without the special case for null pointers
applyOffsetNoNullCase(this, pointer, target) ==
    LET offset == baseOffset(this, target)
    IN IF offset # NotFound
       THEN Ok(pointer + offset)
       ELSE LET back == baseOffset(target, this)
            IN IF back # NotFound
               THEN Ok(pointer - back)
               ELSE Err(ClassUnrelated(m_name[this], m_name[target]))

applyOffset(this, pointer, target) ==
    IF pointer = Null
    THEN Ok(pointer)
    ELSE LET offset == baseOffset(this, target)
         IN IF offset # NotFound
            THEN Ok(pointer + offset)
            ELSE LET back == baseOffset(target, this)
                 IN IF back # NotFound
                    THEN Ok(pointer - back)
                    ELSE Err(ClassUnrelated(m_name[this], m_name[target]))

(***************************************************************************)
(* The class graphs: a class declares only bases registered before it, so  *)
(* the base links of class c point to classes below c.  A class has up to  *)
(* two direct bases, all different.                                        *)
(***************************************************************************)
BaseInfos(c) == [base : 1..(c - 1), offset : Offsets]
BaseLists(c) ==
    {<<>>}
    \cup {<<b>> : b \in BaseInfos(c)}
    \cup {l \in {<<b1, b2>> : b1, b2 \in BaseInfos(c)} : l[1].base # l[2].base}
RECURSIVE GraphsUpTo(_)
GraphsUpTo(n) ==
    IF n = 0
    THEN {<<>>}
    ELSE {Append(g, l) : g \in GraphsUpTo(n - 1), l \in BaseLists(n)}
ClassGraphs == GraphsUpTo(Cardinality(Classes))

NoTable == [c \in Classes |-> <<>>]

InitOffset ==
    /\ m_id = [c \in Classes |-> NewClass(c).id]
    /\ m_name = [c \in Classes |-> NewClass(c).name]
    /\ m_bases \in ClassGraphs
    /\ m_functions = NoTable
    /\ m_propertiesById = NoTable
    /\ m_propertiesByIndex = NoTable
    /\ m_constructors = NoTable
    /\ m_destructor = [c \in Classes |-> <<"destructor", c>>]
    /\ call = NoCall
    /\ run = Idle
    /\ log = <<>>
    /\ threads = [t \in Threads |-> Idle]

\* a caller asks this.baseOffset(base)
BaseOffsetCall ==
    /\ call = NoCall
    /\ \E this \in Classes, target \in Classes :
          call' = [op |-> "baseOffset", this |-> this, target |-> target,
                   result |-> Ok(baseOffset(this, target))]
    /\ UNCHANGED <<fields, run, log, threads>>

\* a caller asks this.applyOffset(pointer, target)
ApplyOffsetCall ==
    /\ call = NoCall
    /\ \E this \in Classes, pointer \in Pointers, target \in Classes :
          call' = [op |-> "applyOffset", this |-> this, target |-> target,
                   pointer |-> pointer,
                   result |-> applyOffset(this, pointer, target)]
    /\ UNCHANGED <<fields, run, log, threads>>

\* a caller converts the pointer a completed applyOffset returned back to
\* the class it came from: call.target.applyOffset(returned, call.this)
ApplyOffsetBack ==
    /\ call.op = "applyOffset"
    /\ call.result.kind = "ok"
    /\ call' = [op |-> "applyOffsetBack", this |-> call.target, target |-> call.this,
                pointer |-> call.result.value, original |-> call.pointer,
                result |-> applyOffset(call.target, call.result.value, call.this)]
    /\ UNCHANGED <<fields, run, log, threads>>

\* the caller has consumed the outcome of the last call
Return ==
    /\ call # NoCall
    /\ call' = NoCall
    /\ UNCHANGED <<fields, run, log, threads>>

NextOffset == BaseOffsetCall \/ ApplyOffsetCall \/ ApplyOffsetBack \/ Return

SpecOffset == InitOffset /\ [][NextOffset]_vars

(***************************************************************************)
(* Class::baseCount, Class::base                                           *)
(***************************************************************************)
baseCount(this) == Len(m_bases[this])

\* the set of outcomes of the call (one)
base(this, index) ==
    IF index >= Len(m_bases[this])
    THEN {Err(OutOfRange(index, Len(m_bases[this])))}
    ELSE {Ok(m_bases[this][index + 1].base)}

(***************************************************************************)
(* std::lower_bound over a table sorted by id, with OrderByFunctionId /    *)
(* OrderByPropertyId (entry.id < id): the 0-based position of the first    *)
(* entry whose id is not less than id, Len(table) standing for end().      *)
(***************************************************************************)
\* one turn of the loop: the next <<first, count>>
lowerBoundStep(table, first, count, id) ==
    LET step == count \div 2
        it == first + step
    IN IF table[it + 1].id < id
       THEN <<it + 1, count - (step + 1)>>
       ELSE <<first, step>>

RECURSIVE lowerBoundLoop(_, _, _, _)
lowerBoundLoop(table, first, count, id) ==
    IF count <= 0
    THEN first
    ELSE LET next == lowerBoundStep(table, first, count, id)
         IN lowerBoundLoop(table, next[1], next[2], id)

\* std::upper_bound in the place of std::lower_bound
upperBound(table, id) ==
    Cardinality({n \in 1..Len(table) : table[n].id <= id})

lower_bound(table, id) == lowerBoundLoop(table, 0, Len(table), id)

(***************************************************************************)
(* Class::functionCount, hasFunction, getFunctionByIndex, getFunctionById, *)
(* tryGetFunctionById                                                      *)
(***************************************************************************)
functionCount(this) == Len(m_functions[this])

hasFunction(this, id) ==
    LET iterator == lower_bound(m_functions[this], id)
    IN iterator # Len(m_functions[this]) /\ m_functions[this][iterator + 1].id = id

getFunctionByIndex(this, index) ==
    IF index >= Len(m_functions[this])
    THEN {Err(OutOfRange(index, Len(m_functions[this])))}
    ELSE {Ok(m_functions[this][index + 1].functionPtr)}

getFunctionById(this, id) ==
    LET iterator == lower_bound(m_functions[this], id)
    IN IF iterator # Len(m_functions[this]) /\ m_functions[this][iterator + 1].id = id
       THEN Ok(m_functions[this][iterator + 1].functionPtr)
       ELSE Err(FunctionNotFound(id, m_name[this]))

tryGetFunctionById(this, id) ==
    LET iterator == lower_bound(m_functions[this], id)
    IN IF iterator # Len(m_functions[this]) /\ m_functions[this][iterator + 1].id = id
       THEN Ok(m_functions[this][iterator + 1].functionPtr)
       ELSE Ok(nullptr)

(***************************************************************************)
(* Class::propertyCount, hasProperty, getPropertyByIndex, getPropertyById, *)
(* tryGetPropertyById                                                      *)
(***************************************************************************)
propertyCount(this) == Len(m_propertiesById[this])

hasProperty(this, id) ==
    LET iterator == lower_bound(m_propertiesById[this], id)
    IN iterator # Len(m_propertiesById[this]) /\ m_propertiesById[this][iterator + 1].id = id

\* the descriptors a read of table[index] can yield: the entry, or anything
\* (a crash included) when the read is past the end of the vector
ReadPropertyPtr(table, index) ==
    IF index < Len(table)
    THEN {Ok(table[index + 1].propertyPtr)}
    ELSE {Ok([kind |-> "property", owner |-> c, index |-> n]) : c \in Classes, n \in Ids}
         \cup {[kind |-> "crash"]}

\* getPropertyByIndex with the range check written "index > size"
getPropertyByIndexOffByOne(this, index) ==
    IF index > Len(m_propertiesById[this])
    THEN {Err(OutOfRange(index, Len(m_propertiesById[this])))}
    ELSE ReadPropertyPtr(m_propertiesByIndex[this], index)

\* the set of outcomes: the range check reads m_propertiesById.size(), the
\* access reads m_propertiesByIndex
getPropertyByIndex(this, index) ==
    IF index >= Len(m_propertiesById[this])
    THEN {Err(OutOfRange(index, Len(m_propertiesById[this])))}
    ELSE ReadPropertyPtr(m_propertiesByIndex[this], index)

getPropertyById(this, id) ==
    LET iterator == lower_bound(m_propertiesById[this], id)
    IN IF iterator # Len(m_propertiesById[this]) /\ m_propertiesById[this][iterator + 1].id = id
       THEN Ok(m_propertiesById[this][iterator + 1].propertyPtr)
       ELSE Err(PropertyNotFound(id, m_name[this]))

tryGetPropertyById(this, id) ==
    LET iterator == lower_bound(m_propertiesById[this], id)
    IN IF iterator # Len(m_propertiesById[this]) /\ m_propertiesById[this][iterator + 1].id = id
       THEN Ok(m_propertiesById[this][iterator + 1].propertyPtr)
       ELSE Ok(nullptr)

(***************************************************************************)
(* Populated member tables.  A class declares functions and properties     *)
(* with distinct ids; each declaration creates one descriptor.  The        *)
(* function table and the by-id property view are sorted by id, the        *)
(* by-index property view keeps the declaration order.                     *)
(***************************************************************************)
RECURSIVE Declarations(_)
Declarations(ids) ==
    {<<>>} \cup UNION {{<<k>> \o d : d \in Declarations(ids \ {k})} : k \in ids}

RECURSIVE SortedById(_)
SortedById(entries) ==
    IF entries = <<>>
    THEN <<>>
    ELSE LET least == CHOOSE n \in 1..Len(entries) :
                          \A m \in 1..Len(entries) : entries[n].id <= entries[m].id
         IN <<entries[least]>>
            \o SortedById([m \in 1..(Len(entries) - 1) |->
                              IF m < least THEN entries[m] ELSE entries[m + 1]])

FunctionEntries(c, decl) ==
    [n \in 1..Len(decl) |->
        [id |-> decl[n], functionPtr |-> [kind |-> "function", owner |-> c, index |-> n]]]
PropertyEntries(c, decl) ==
    [n \in 1..Len(decl) |->
        [id |-> decl[n], propertyPtr |-> [kind |-> "property", owner |-> c, index |-> n]]]

\* every id declared, in descending id order
FullDeclaration == [n \in 1..MaxId |-> MaxId + 1 - n]

\* the diamond 4 -> {2, 3} -> 1
DiamondGraph ==
    <<  <<>>,
        <<[base |-> 1, offset |-> 0]>>,
        <<[base |-> 1, offset |-> 1]>>,
        <<[base |-> 2, offset |-> 0], [base |-> 3, offset |-> 1]>>  >>

\* the most derived class of the diamond declares any members; its bases
\* declare every id
Derived == Cardinality(Classes)

InitMembers ==
    /\ m_id = [c \in Classes |-> NewClass(c).id]
    /\ m_name = [c \in Classes |-> NewClass(c).name]
    /\ m_bases = DiamondGraph
    /\ \E fdecl \in Declarations(Ids), pdecl \in Declarations(Ids) :
         LET fd(c) == IF c = Derived THEN fdecl ELSE FullDeclaration
             pd(c) == IF c = Derived THEN pdecl ELSE FullDeclaration
         IN /\ m_functions = [c \in Classes |-> SortedById(FunctionEntries(c, fd(c)))]
            /\ m_propertiesById = [c \in Classes |-> SortedById(PropertyEntries(c, pd(c)))]
            /\ m_propertiesByIndex = [c \in Classes |-> PropertyEntries(c, pd(c))]
    /\ m_constructors = NoTable
    /\ m_destructor = [c \in Classes |-> <<"destructor", c>>]
    /\ call = NoCall
    /\ run = Idle
    /\ log = <<>>
    /\ threads = [t \in Threads |-> Idle]

\* the ids and the indices callers ask for: present and absent ones
QueryIds == 0..(MaxId + 1)
QueryIndices == 0..(MaxId + 1)

CountCall ==
    /\ call = NoCall
    /\ \E this \in Classes :
          call' \in {[op |-> "baseCount", this |-> this, result |-> Ok(baseCount(this))],
                     [op |-> "functionCount", this |-> this, result |-> Ok(functionCount(this))],
                     [op |-> "propertyCount", this |-> this, result |-> Ok(propertyCount(this))]}
    /\ UNCHANGED <<fields, run, log, threads>>

BaseCall ==
    /\ call = NoCall
    /\ \E this \in Classes, index \in QueryIndices :
          \E r \in base(this, index) :
              call' = [op |-> "base", this |-> this, index |-> index, result |-> r]
    /\ UNCHANGED <<fields, run, log, threads>>

HasFunctionCall ==
    /\ call = NoCall
    /\ \E this \in Classes, id \in QueryIds :
          call' = [op |-> "hasFunction", this |-> this, id |-> id,
                   result |-> Ok(hasFunction(this, id))]
    /\ UNCHANGED <<fields, run, log, threads>>

GetFunctionByIndexCall ==
    /\ call = NoCall
    /\ \E this \in Classes, index \in QueryIndices :
          \E r \in getFunctionByIndex(this, index) :
              call' = [op |-> "getFunctionByIndex", this |-> this, index |-> index, result |-> r]
    /\ UNCHANGED <<fields, run, log, threads>>

GetFunctionByIdCall ==
    /\ call = NoCall
    /\ \E this \in Classes, id \in QueryIds :
          call' = [op |-> "getFunctionById", this |-> this, id |-> id,
                   result |-> getFunctionById(this, id)]
    /\ UNCHANGED <<fields, run, log, threads>>

TryGetFunctionByIdCall ==
    /\ call = NoCall
    /\ \E this \in Classes, id \in QueryIds :
          call' = [op |-> "tryGetFunctionById", this |-> this, id |-> id,
                   result |-> tryGetFunctionById(this, id)]
    /\ UNCHANGED <<fields, run, log, threads>>

HasPropertyCall ==
    /\ call = NoCall
    /\ \E this \in Classes, id \in QueryIds :
          call' = [op |-> "hasProperty", this |-> this, id |-> id,
                   result |-> Ok(hasProperty(this, id))]
    /\ UNCHANGED <<fields, run, log, threads>>

GetPropertyByIndexCall ==
    /\ call = NoCall
    /\ \E this \in Classes, index \in QueryIndices :
          \E r \in getPropertyByIndex(this, index) :
              call' = [op |-> "getPropertyByIndex", this |-> this, index |-> index, result |-> r]
    /\ UNCHANGED <<fields, run, log, threads>>

GetPropertyByIdCall ==
    /\ call = NoCall
    /\ \E this \in Classes, id \in QueryIds :
          call' = [op |-> "getPropertyById", this |-> this, id |-> id,
                   result |-> getPropertyById(this, id)]
    /\ UNCHANGED <<fields, run, log, threads>>

TryGetPropertyByIdCall ==
    /\ call = NoCall
    /\ \E this \in Classes, id \in QueryIds :
          call' = [op |-> "tryGetPropertyById", this |-> this, id |-> id,
                   result |-> tryGetPropertyById(this, id)]
    /\ UNCHANGED <<fields, run, log, threads>>

NextLookup ==
    \/ CountCall \/ BaseCall
    \/ HasFunctionCall \/ GetFunctionByIndexCall \/ GetFunctionByIdCall \/ TryGetFunctionByIdCall
    \/ HasPropertyCall \/ GetPropertyByIndexCall \/ GetPropertyByIdCall \/ TryGetPropertyByIdCall
    \/ Return

SpecLookup == InitMembers /\ [][NextLookup]_vars

(***************************************************************************)
(* Constructor descriptors.  What a constructor accepts is its own         *)
(* business: a descriptor carries the set of argument bundles it matches.  *)
(***************************************************************************)
matches(constructor, args) == args \in constructor.accepts
create(constructor, args) ==
    [kind |-> "instance", owner |-> constructor.owner, by |-> constructor.index, args |-> args]
\* UserObject::nothing
nothing == [kind |-> "nothing"]

ConstructorLists ==
    UNION {[1..n -> SUBSET ArgBundles] : n \in 0..MaxConstructors}
Constructors(c, accepted) ==
    [n \in 1..Len(accepted) |-> [owner |-> c, index |-> n, accepts |-> accepted[n]]]

InitConstruct ==
    /\ m_id = [c \in Classes |-> NewClass(c).id]
    /\ m_name = [c \in Classes |-> NewClass(c).name]
    /\ m_bases = DiamondGraph
    /\ m_functions = NoTable
    /\ m_propertiesById = NoTable
    /\ m_propertiesByIndex = NoTable
    /\ \E accepted \in ConstructorLists :
         m_constructors = [c \in Classes |-> Constructors(c, accepted)]
    /\ m_destructor = [c \in Classes |-> <<"destructor", c>>]
    /\ call = NoCall
    /\ run = Idle
    /\ log = <<>>
    /\ threads = [t \in Threads |-> Idle]

(***************************************************************************)
(* Class::constructorCount, Class::construct, statement by statement       *)
(***************************************************************************)
constructorCount(this) == Len(m_constructors[this])

\* construct with the loop started at the second constructor
ConstructCallFromSecond ==
    /\ call = NoCall /\ run = Idle
    /\ \E this \in Classes, args \in ArgBundles :
          run' = [pc |-> "construct", this |-> this, args |-> args, i |-> 1,
                  numberOfConstructors |-> Len(m_constructors[this])]
    /\ log' = <<>>
    /\ UNCHANGED <<fields, call, threads>>

\* entry: numberOfConstructors = m_constructors.size(), i = 0
ConstructCall ==
    /\ call = NoCall /\ run = Idle
    /\ \E this \in Classes, args \in ArgBundles :
          run' = [pc |-> "construct", this |-> this, args |-> args, i |-> 0,
                  numberOfConstructors |-> Len(m_constructors[this])]
    /\ log' = <<>>
    /\ UNCHANGED <<fields, call, threads>>

\* one turn of the loop: constructor->matches(args), then create or ++i
ConstructMatch ==
    /\ run.pc = "construct"
    /\ run.i < run.numberOfConstructors
    /\ LET constructor == m_constructors[run.this][run.i + 1]
       IN /\ log' = Append(log, [call |-> "matches", index |-> run.i])
          /\ IF matches(constructor, run.args)
             THEN run' = [run EXCEPT !.pc = "create"]
             ELSE run' = [run EXCEPT !.i = run.i + 1]
    /\ UNCHANGED <<fields, call, threads>>

\* return constructor->create(args)
ConstructCreate ==
    /\ run.pc = "create"
    /\ LET constructor == m_constructors[run.this][run.i + 1]
       IN /\ log' = Append(log, [call |-> "create", index |-> run.i])
          /\ call' = [op |-> "construct", this |-> run.this, args |-> run.args,
                      result |-> Ok(create(constructor, run.args))]
    /\ run' = Idle
    /\ UNCHANGED <<fields, threads>>

\* the loop is over: return UserObject::nothing
ConstructNothing ==
    /\ run.pc = "construct"
    /\ run.i >= run.numberOfConstructors
    /\ call' = [op |-> "construct", this |-> run.this, args |-> run.args,
                result |-> Ok(nothing)]
    /\ run' = Idle
    /\ UNCHANGED <<fields, log, threads>>

\* the caller has consumed the outcome; the collaborators' record is reset
ReturnRun ==
    /\ call # NoCall
    /\ call' = NoCall
    /\ log' = <<>>
    /\ UNCHANGED <<fields, run, threads>>

NextConstruct ==
    ConstructCall \/ ConstructMatch \/ ConstructCreate \/ ConstructNothing \/ ReturnRun

SpecConstruct == InitConstruct /\ [][NextConstruct]_vars

(***************************************************************************)
(* Class::visit, statement by statement                                    *)
(***************************************************************************)
\* entry: numberOfProperties = m_propertiesById.size(), i = 0
VisitCall ==
    /\ call = NoCall /\ run = Idle
    /\ \E this \in Classes :
          run' = [pc |-> "properties", this |-> this, i |-> 0,
                  numberOfProperties |-> Len(m_propertiesById[this])]
    /\ log' = <<>>
    /\ UNCHANGED <<fields, call, threads>>

\* the properties loop reading the index-ordered view
VisitPropertyByIndex ==
    /\ run.pc = "properties"
    /\ run.i < run.numberOfProperties
    /\ log' = Append(log, [call |-> "accept",
                           member |-> m_propertiesByIndex[run.this][run.i + 1].propertyPtr])
    /\ run' = [run EXCEPT !.i = run.i + 1]
    /\ UNCHANGED <<fields, call, threads>>

\* m_propertiesById[i].propertyPtr->accept(visitor); ++i
VisitProperty ==
    /\ run.pc = "properties"
    /\ run.i < run.numberOfProperties
    /\ log' = Append(log, [call |-> "accept",
                           member |-> m_propertiesById[run.this][run.i + 1].propertyPtr])
    /\ run' = [run EXCEPT !.i = run.i + 1]
    /\ UNCHANGED <<fields, call, threads>>

\* end of the first block: numberOfFunctions = m_functions.size(), i = 0
VisitFunctionsBegin ==
    /\ run.pc = "properties"
    /\ run.i >= run.numberOfProperties
    /\ run' = [pc |-> "functions", this |-> run.this, i |-> 0,
               numberOfFunctions |-> Len(m_functions[run.this])]
    /\ UNCHANGED <<fields, call, log, threads>>

\* m_functions[i].functionPtr->accept(visitor); ++i
VisitFunction ==
    /\ run.pc = "functions"
    /\ run.i < run.numberOfFunctions
    /\ log' = Append(log, [call |-> "accept",
                           member |-> m_functions[run.this][run.i + 1].functionPtr])
    /\ run' = [run EXCEPT !.i = run.i + 1]
    /\ UNCHANGED <<fields, call, threads>>

\* end of the second block: visit returns
VisitReturn ==
    /\ run.pc = "functions"
    /\ run.i >= run.numberOfFunctions
    /\ call' = [op |-> "visit", this |-> run.this, result |-> Ok("void")]
    /\ run' = Idle
    /\ UNCHANGED <<fields, log, threads>>

NextVisit ==
    VisitCall \/ VisitProperty \/ VisitFunctionsBegin \/ VisitFunction \/ VisitReturn
    \/ ReturnRun

SpecVisit == InitMembers /\ [][NextVisit]_vars

(***************************************************************************)
(* Concurrent readers.  After population each thread issues hasProperty,   *)
(* getFunctionById, baseOffset and visit calls and runs them statement by  *)
(* statement, its locals (iterators, loop indices, the call stack of the   *)
(* baseOffset recursion, its own visitor) in threads[t]; the steps of the  *)
(* threads interleave freely.                                              *)
(***************************************************************************)
InitConcurrent ==
    /\ InitMembers
    /\ m_functions[Derived] = SortedById(FunctionEntries(Derived, FullDeclaration))
    /\ m_propertiesByIndex[Derived] = PropertyEntries(Derived, FullDeclaration)

Done(op, this, arg, result) ==
    [pc |-> "done", op |-> op, this |-> this, arg |-> arg, result |-> result]

\* thread t calls hasProperty, getFunctionById, baseOffset or visit on the
\* most derived class
ThreadCall(t) ==
    /\ threads[t] = Idle
    /\ \/ \E id \in QueryIds :
            threads' = [threads EXCEPT ![t] =
                [pc |-> "hasProperty", this |-> Derived, id |-> id,
                 first |-> 0, count |-> Len(m_propertiesById[Derived])]]
       \/ \E id \in QueryIds :
            threads' = [threads EXCEPT ![t] =
                [pc |-> "getFunctionById", this |-> Derived, id |-> id,
                 first |-> 0, count |-> Len(m_functions[Derived])]]
       \/ \E target \in Classes :
            threads' = [threads EXCEPT ![t] =
                IF target = Derived
                THEN Done("baseOffset", Derived, target, 0)
                ELSE [pc |-> "baseOffset", this |-> Derived, target |-> target,
                      stack |-> <<[this |-> Derived, i |-> 0]>>,
                      returning |-> FALSE, offset |-> 0]]
       \/ threads' = [threads EXCEPT ![t] =
                [pc |-> "visit", this |-> Derived, part |-> "properties", i |-> 0,
                 count |-> Len(m_propertiesById[Derived]), visitor |-> <<>>]]
    /\ UNCHANGED <<fields, call, run, log>>

\* one turn of the lower_bound loop of hasProperty, or its return statement
ThreadHasProperty(t) ==
    LET self == threads[t]
        table == m_propertiesById[self.this]
    IN /\ self.pc = "hasProperty"
       /\ IF self.count > 0
          THEN LET next == lowerBoundStep(table, self.first, self.count, self.id)
               IN threads' = [threads EXCEPT ![t].first = next[1], ![t].count = next[2]]
          ELSE threads' = [threads EXCEPT ![t] =
                   Done("hasProperty", self.this, self.id,
                        self.first # Len(table) /\ table[self.first + 1].id = self.id)]
       /\ UNCHANGED <<fields, call, run, log>>

\* one turn of the lower_bound loop of getFunctionById, or its if / else
ThreadGetFunctionById(t) ==
    LET self == threads[t]
        table == m_functions[self.this]
    IN /\ self.pc = "getFunctionById"
       /\ IF self.count > 0
          THEN LET next == lowerBoundStep(table, self.first, self.count, self.id)
               IN threads' = [threads EXCEPT ![t].first = next[1], ![t].count = next[2]]
          ELSE threads' = [threads EXCEPT ![t] =
                   Done("getFunctionById", self.this, self.id,
                        IF self.first # Len(table) /\ table[self.first + 1].id = self.id
                        THEN Ok(table[self.first + 1].functionPtr)
                        ELSE Err(FunctionNotFound(self.id, m_name[self.this])))]
       /\ UNCHANGED <<fields, call, run, log>>

\* one step of the baseOffset recursion: a frame of the stack is an
\* activation {this, i} in its loop over m_bases
ThreadBaseOffset(t) ==
    LET self == threads[t]
        depth == Len(self.stack)
        top == self.stack[depth]
        popped == SubSeq(self.stack, 1, depth - 1)
    IN /\ self.pc = "baseOffset"
       /\ IF self.returning
          THEN \* "const int offset = baseInfo.base->baseOffset(base)" has returned
               IF depth = 0
               THEN threads' = [threads EXCEPT ![t] =
                        Done("baseOffset", self.this, self.target, self.offset)]
               ELSE IF self.offset # NotFound
                    THEN threads' = [threads EXCEPT
                             ![t].stack = popped,
                             ![t].offset = self.offset + m_bases[top.this][top.i + 1].offset]
                    ELSE threads' = [threads EXCEPT
                             ![t].stack = [self.stack EXCEPT ![depth].i = top.i + 1],
                             ![t].returning = FALSE]
          ELSE \* the loop test, then the call on the next base
               IF top.i >= Len(m_bases[top.this])
               THEN threads' = [threads EXCEPT
                        ![t].stack = popped, ![t].offset = NotFound, ![t].returning = TRUE]
               ELSE LET callee == m_bases[top.this][top.i + 1].base
                    IN IF callee = self.target
                       THEN threads' = [threads EXCEPT
                                ![t].offset = 0, ![t].returning = TRUE]
                       ELSE threads' = [threads EXCEPT
                                ![t].stack = Append(self.stack, [this |-> callee, i |-> 0])]
       /\ UNCHANGED <<fields, call, run, log>>

\* visit with its loop index in storage the threads share
ThreadVisitSharedIndex(t) ==
    LET self == threads[t]
    IN /\ self.pc = "visit"
       /\ IF self.part = "properties"
          THEN IF Len(log) < self.count
               THEN /\ threads' = [threads EXCEPT ![t].visitor = Append(self.visitor,
                           [call |-> "accept",
                            member |-> m_propertiesById[self.this][Len(log) + 1].propertyPtr])]
                    /\ log' = Append(log, t)
               ELSE /\ threads' = [threads EXCEPT ![t].part = "functions", ![t].i = 0,
                                       ![t].count = Len(m_functions[self.this])]
                    /\ log' = <<>>
          ELSE /\ log' = log
               /\ IF self.i < self.count
                  THEN threads' = [threads EXCEPT ![t].i = self.i + 1,
                           ![t].visitor = Append(self.visitor,
                               [call |-> "accept",
                                member |-> m_functions[self.this][self.i + 1].functionPtr])]
                  ELSE threads' = [threads EXCEPT ![t] =
                           Done("visit", self.this, "visitor", self.visitor)]
       /\ UNCHANGED <<fields, call, run>>

\* one statement of visit: an accept call, or the end of a block
ThreadVisit(t) ==
    LET self == threads[t]
    IN /\ self.pc = "visit"
       /\ IF self.part = "properties"
          THEN IF self.i < self.count
               THEN threads' = [threads EXCEPT ![t].i = self.i + 1,
                        ![t].visitor = Append(self.visitor,
                            [call |-> "accept",
                             member |-> m_propertiesById[self.this][self.i + 1].propertyPtr])]
               ELSE threads' = [threads EXCEPT ![t].part = "functions", ![t].i = 0,
                                    ![t].count = Len(m_functions[self.this])]
          ELSE IF self.i < self.count
               THEN threads' = [threads EXCEPT ![t].i = self.i + 1,
                        ![t].visitor = Append(self.visitor,
                            [call |-> "accept",
                             member |-> m_functions[self.this][self.i + 1].functionPtr])]
               ELSE threads' = [threads EXCEPT ![t] =
                        Done("visit", self.this, "visitor", self.visitor)]
       /\ UNCHANGED <<fields, call, run, log>>

\* thread t has consumed the outcome of its call
ThreadReturn(t) ==
    /\ threads[t].pc = "done"
    /\ threads' = [threads EXCEPT ![t] = Idle]
    /\ UNCHANGED <<fields, call, run, log>>

NextConcurrent ==
    \E t \in Threads :
        \/ ThreadCall(t)
        \/ ThreadHasProperty(t)
        \/ ThreadGetFunctionById(t)
        \/ ThreadBaseOffset(t)
        \/ ThreadVisit(t)
        \/ ThreadReturn(t)

SpecConcurrent == InitConcurrent /\ [][NextConcurrent]_vars

(***************************************************************************)
(* The inheritance relation of the class graph, read off the base links.   *)
(***************************************************************************)
RECURSIVE AncestorsOrSelf(_)
AncestorsOrSelf(c) ==
    {c} \cup UNION {AncestorsOrSelf(m_bases[c][i].base) : i \in 1..Len(m_bases[c])}
ProperAncestors(c) == AncestorsOrSelf(c) \ {c}
Related(c, t) == t \in AncestorsOrSelf(c) \/ c \in AncestorsOrSelf(t)

\* the sum of the edge offsets along the first path from c to its ancestor t
\* that a depth-first traversal in declaration order finds
RECURSIVE FirstPathOffset(_, _)
FirstPathOffset(c, t) ==
    IF c = t
    THEN 0
    ELSE LET leading == {i \in 1..Len(m_bases[c]) : t \in AncestorsOrSelf(m_bases[c][i].base)}
             first == CHOOSE i \in leading : \A j \in leading : i <= j
         IN m_bases[c][first].offset + FirstPathOffset(m_bases[c][first].base, t)

\* classes 4 -> {2, 3} -> 1 form a diamond, 2 declared first
IsDiamond ==
    /\ Len(m_bases[4]) = 2 /\ m_bases[4][1].base = 2 /\ m_bases[4][2].base = 3
    /\ Len(m_bases[2]) = 1 /\ m_bases[2][1].base = 1
    /\ Len(m_bases[3]) = 1 /\ m_bases[3][1].base = 1

(***************************************************************************)
(* C1: for related classes C and T and a non-null p, C.applyOffset(p, T)   *)
(* returns a pointer and T.applyOffset of that pointer back to C returns   *)
(* exactly p, without error.                                               *)
(***************************************************************************)
C1_RoundTrip ==
    /\ (call.op = "applyOffset" /\ call.pointer # Null /\ Related(call.this, call.target))
          => call.result.kind = "ok"
    /\ (call.op = "applyOffsetBack" /\ call.original # Null /\ Related(call.this, call.target))
          => call.result = Ok(call.original)

(***************************************************************************)
(* C2: for a proper ancestor T of C, C.baseOffset(T) is the sum of the     *)
(* edge offsets along the first path to T in depth-first, declaration      *)
(* order; in the diamond 4 -> {2, 3} -> 1 it is offset(4->2) + offset(2->1)*)
(***************************************************************************)
C2_FirstPathWins ==
    (call.op = "baseOffset" /\ call.target \in ProperAncestors(call.this))
        => /\ call.result = Ok(FirstPathOffset(call.this, call.target))
           /\ (IsDiamond /\ call.this = 4 /\ call.target = 1)
                 => call.result = Ok(m_bases[4][1].offset + m_bases[2][1].offset)

(***************************************************************************)
(* C3: for a non-null p, C.applyOffset(p, T) returns p + C.baseOffset(T)   *)
(* when T is an ancestor of C or C itself, else p - T.baseOffset(C) when T *)
(* is a descendant of C; neither case raises an error.                     *)
(***************************************************************************)
C3_AddThenSubtract ==
    (call.op = "applyOffset" /\ call.pointer # Null)
        => /\ call.target \in AncestorsOrSelf(call.this)
                 => call.result = Ok(call.pointer + baseOffset(call.this, call.target))
           /\ (call.target \notin AncestorsOrSelf(call.this)
                /\ call.this \in AncestorsOrSelf(call.target))
                 => call.result = Ok(call.pointer - baseOffset(call.target, call.this))

(***************************************************************************)
(* C4: for a non-null p and classes C and T of which neither is an         *)
(* ancestor of the other, C.applyOffset(p, T) fails with ClassUnrelated    *)
(* carrying the name of C and the name of T, and returns no pointer.       *)
(***************************************************************************)
C4_Unrelated ==
    (call.op = "applyOffset" /\ call.pointer # Null /\ ~Related(call.this, call.target))
        => call.result = Err(ClassUnrelated(ClassName(call.this), ClassName(call.target)))

\* applyOffset was asked for two siblings that share a base and answered
C4_Witness ==
    /\ call.op = "applyOffset" /\ call.pointer # Null
    /\ ~Related(call.this, call.target)
    /\ ProperAncestors(call.this) \cap ProperAncestors(call.target) # {}
    /\ call.result.kind = "error"

(***************************************************************************)
(* C8: C.applyOffset(null, T) returns null and raises no error, whether T  *)
(* is related to C or not.                                                 *)
(***************************************************************************)
C8_NullPassesThrough ==
    (call.op = "applyOffset" /\ call.pointer = Null) => call.result = Ok(Null)

\* applyOffset was asked to convert null to an unrelated class
C8_Witness ==
    /\ call.op = "applyOffset" /\ call.pointer = Null
    /\ ~Related(call.this, call.target)
    /\ call.result = Ok(Null)

(***************************************************************************)
(* C5: for an id k in the id-sorted function table, hasFunction(k) is      *)
(* true and getFunctionById(k), tryGetFunctionById(k) and                  *)
(* getFunctionByIndex(i), i the position of k in the table, return the     *)
(* same descriptor; for an absent k, hasFunction(k) is false,              *)
(* getFunctionById(k) fails with NotFound(k, class name) and               *)
(* tryGetFunctionById(k) returns no value.  The same for hasProperty,      *)
(* getPropertyById and tryGetPropertyById over the id-sorted view.         *)
(***************************************************************************)
Positions(table, k) == {n \in 1..Len(table) : table[n].id = k}
PositionOf(table, k) == CHOOSE n \in Positions(table, k) : TRUE

C5_Functions ==
    LET table == m_functions[call.this]
        present == Positions(table, call.id) # {}
        found == Ok(table[PositionOf(table, call.id)].functionPtr)
    IN /\ call.op = "hasFunction" => call.result = Ok(present)
       /\ (call.op = "getFunctionById" /\ present)
             => /\ call.result = found
                /\ tryGetFunctionById(call.this, call.id) = call.result
                /\ getFunctionByIndex(call.this, PositionOf(table, call.id) - 1) = {call.result}
       /\ (call.op = "getFunctionById" /\ ~present)
             => call.result = Err(FunctionNotFound(call.id, ClassName(call.this)))
       /\ (call.op = "tryGetFunctionById" /\ present)
             => /\ call.result = found
                /\ getFunctionById(call.this, call.id) = call.result
       /\ (call.op = "tryGetFunctionById" /\ ~present)
             => call.result = Ok(nullptr)

C5_Properties ==
    LET table == m_propertiesById[call.this]
        present == Positions(table, call.id) # {}
        found == Ok(table[PositionOf(table, call.id)].propertyPtr)
    IN /\ call.op = "hasProperty" => call.result = Ok(present)
       /\ (call.op = "getPropertyById" /\ present)
             => /\ call.result = found
                /\ tryGetPropertyById(call.this, call.id) = call.result
       /\ (call.op = "getPropertyById" /\ ~present)
             => call.result = Err(PropertyNotFound(call.id, ClassName(call.this)))
       /\ (call.op = "tryGetPropertyById" /\ present)
             => /\ call.result = found
                /\ getPropertyById(call.this, call.id) = call.result
       /\ (call.op = "tryGetPropertyById" /\ ~present)
             => call.result = Ok(nullptr)

C5_SortedLookup == C5_Functions /\ C5_Properties

\* getFunctionById found the last of three functions, whose descriptor was
\* not the last one declared
C5_Witness ==
    /\ call.op = "getFunctionById"
    /\ Len(m_functions[call.this]) = 3
    /\ Positions(m_functions[call.this], call.id) = {3}
    /\ call.result.kind = "ok"
    /\ call.result.value.index # 3

(***************************************************************************)
(* C6: getFunctionByIndex, getPropertyByIndex and base return the i-th     *)
(* entry of the view they read (function table, index-ordered property     *)
(* view, base list) when i is below the matching count, and fail with      *)
(* OutOfRange(i, count) when i is at or above it; none reads past the end  *)
(* of its view.                                                            *)
(***************************************************************************)
C6_IndexRange ==
    /\ call.op = "getFunctionByIndex"
         => IF call.index < functionCount(call.this)
            THEN call.result = Ok(m_functions[call.this][call.index + 1].functionPtr)
            ELSE call.result = Err(OutOfRange(call.index, functionCount(call.this)))
    /\ call.op = "getPropertyByIndex"
         => IF call.index < propertyCount(call.this)
            THEN /\ call.index < Len(m_propertiesByIndex[call.this])
                 /\ call.result = Ok(m_propertiesByIndex[call.this][call.index + 1].propertyPtr)
            ELSE call.result = Err(OutOfRange(call.index, propertyCount(call.this)))
    /\ call.op = "base"
         => IF call.index < baseCount(call.this)
            THEN call.result = Ok(m_bases[call.this][call.index + 1].base)
            ELSE call.result = Err(OutOfRange(call.index, baseCount(call.this)))

\* getPropertyByIndex returned an entry of the index-ordered view that the
\* id-sorted view holds at another position
C6_Witness ==
    /\ call.op = "getPropertyByIndex"
    /\ call.index < propertyCount(call.this)
    /\ call.result.kind = "ok"
    /\ m_propertiesById[call.this][call.index + 1].propertyPtr # call.result.value

(***************************************************************************)
(* C7: construct(args) asks the constructors in registration order, calls  *)
(* create on exactly the first one whose matches(args) is true and returns *)
(* its instance, calling nothing on a later constructor; when none matches *)
(* (an empty list included) it calls create on none and returns the        *)
(* "no instance" value without an error.                                   *)
(***************************************************************************)
Matching(this, args) ==
    {n \in 1..Len(m_constructors[this]) : args \in m_constructors[this][n].accepts}
FirstMatching(this, args) ==
    CHOOSE n \in Matching(this, args) : \A m \in Matching(this, args) : n <= m

C7_FirstMatchConstructs ==
    call.op = "construct"
        => IF Matching(call.this, call.args) = {}
           THEN /\ call.result = Ok(nothing)
                /\ log = [n \in 1..Len(m_constructors[call.this]) |->
                             [call |-> "matches", index |-> n - 1]]
           ELSE LET first == FirstMatching(call.this, call.args)
                IN /\ call.result = Ok([kind |-> "instance", owner |-> call.this,
                                        by |-> first, args |-> call.args])
                   /\ log = [n \in 1..(first + 1) |->
                                IF n <= first
                                THEN [call |-> "matches", index |-> n - 1]
                                ELSE [call |-> "create", index |-> first - 1]]

\* construct returned the instance of the second constructor: the first did
\* not match, the second did
C7_Witness ==
    /\ call.op = "construct"
    /\ Len(m_constructors[call.this]) = 2
    /\ Matching(call.this, call.args) = {2}
    /\ call.result.kind = "ok"
    /\ call.result.value.kind = "instance"
    /\ Len(log) = 3

(***************************************************************************)
(* C10: visit calls accept once on each property of the class in ascending *)
(* id order (the id-sorted view), then once on each function of the class  *)
(* in ascending id order: every property before any function, and no       *)
(* member of a base class.                                                 *)
(***************************************************************************)
\* the members of a class: the descriptors its declarations created
PropertiesOf(c) == {m_propertiesByIndex[c][n] : n \in 1..Len(m_propertiesByIndex[c])}
FunctionsOf(c) == {m_functions[c][n] : n \in 1..Len(m_functions[c])}
\* the entries of a set in ascending id order
RECURSIVE Ascending(_)
Ascending(entries) ==
    IF entries = {}
    THEN <<>>
    ELSE LET least == CHOOSE e \in entries : \A f \in entries : e.id <= f.id
         IN <<least>> \o Ascending(entries \ {least})
Presented(this) ==
    LET ps == Ascending(PropertiesOf(this))
        fs == Ascending(FunctionsOf(this))
    IN [n \in 1..Len(ps) |-> [call |-> "accept", member |-> ps[n].propertyPtr]]
       \o [n \in 1..Len(fs) |-> [call |-> "accept", member |-> fs[n].functionPtr]]

C10_VisitOrder ==
    /\ call.op = "visit"
         => /\ log = Presented(call.this)
            /\ \A n \in 1..Len(log) : log[n].member.owner = call.this
    /\ run.pc \in {"properties", "functions"}
         => /\ Len(log) <= Len(Presented(run.this))
            /\ log = SubSeq(Presented(run.this), 1, Len(log))

\* visit of the most derived class returned after presenting three
\* properties declared in another order than their ids, and some function
C10_Witness ==
    /\ call.op = "visit"
    /\ call.this = Derived
    /\ Len(m_propertiesById[Derived]) = 3
    /\ m_propertiesById[Derived] # m_propertiesByIndex[Derived]
    /\ Len(m_functions[Derived]) >= 1
    /\ Len(log) = 3 + Len(m_functions[Derived])

(***************************************************************************)
(* C9: whatever the interleaving of the hasProperty, getFunctionById,      *)
(* baseOffset and visit calls of the threads, each call returns what it    *)
(* returns when run alone, and no step of any call changes a field of a    *)
(* class (id, name, bases, function table, property views, constructors,   *)
(* destructor).                                                            *)
(***************************************************************************)
\* what the call of a finished thread returns when it runs alone
Alone(done) ==
    CASE done.op = "hasProperty" -> hasProperty(done.this, done.arg)
      [] done.op = "getFunctionById" -> getFunctionById(done.this, done.arg)
      [] done.op = "baseOffset" -> baseOffset(done.this, done.arg)
      [] done.op = "visit" -> Presented(done.this)

C9_ResultsAgree ==
    \A t \in Threads : threads[t].pc = "done" => threads[t].result = Alone(threads[t])

C9_ConcurrentReads == []C9_ResultsAgree /\ [][UNCHANGED fields]_vars

\* a thread finished a visit while another was inside the baseOffset
\* recursion, two calls deep
C9_Witness ==
    \E t, u \in Threads :
        /\ threads[t].pc = "done" /\ threads[t].op = "visit"
        /\ Len(threads[t].result) = 2 * MaxId
        /\ threads[u].pc = "baseOffset" /\ Len(threads[u].stack) = 2

====
